---- MODULE Spec2Model ----
(***************************************************************************)
(* Model of packages/from-query/index.ts (gql2ts): the conversion of a     *)
(* GraphQL document, against a schema, into type declaration text.         *)
(*                                                                         *)
(* Text is a sequence of tokens (strings); string concatenation is \o.     *)
(* A GraphQL type of the schema is named by its name; a type reference is  *)
(* the chain of its List/NonNull wrappers, outermost first, around a name. *)
(***************************************************************************)
EXTENDS Naturals, Sequences, FiniteSets, TLC

VARIABLES
  parsedSchema,      \* the schema object (line 64)
  options,           \* typeMap and the hook options given to doIt (lines 39-62)
  parsedSelection,   \* the document: the sequence of its definitions (line 65)
  defIndex,          \* position of definitions.map in the document (line 305)
  acc,               \* the records definitions.map has built so far
  result,            \* what doIt gave its caller: nothing yet, a return, a throw
  call,              \* the arguments of a direct call of one closure of doIt
  ret                \* what that call returned

vars == <<parsedSchema, options, parsedSelection, defIndex, acc, result, call, ret>>

(***************************************************************************)
(* Bounds of the model.                                                    *)
(***************************************************************************)
MaxWrappers == 4
MaxSelections == 2

(***************************************************************************)
(* JavaScript values.                                                      *)
(***************************************************************************)
\* null / undefined where a string is expected
Null == <<"<null>">>
\* undefined where a schema type is expected
Undefined == "<undefined>"
NotCalled == [called |-> FALSE]

\* !!s for a string or null
Truthy(s) == s # Null /\ s # <<>>

\* `${s}` for a string or null
Template(s) == IF s = Null THEN <<"null">> ELSE s

RECURSIVE Join(_, _)
Join(texts, sep) ==
  IF texts = <<>> THEN <<>>
  ELSE IF Len(texts) = 1 THEN texts[1]
  ELSE texts[1] \o sep \o Join(Tail(texts), sep)

RECURSIVE Concat(_)
Concat(seqs) ==
  IF seqs = <<>> THEN <<>> ELSE seqs[1] \o Concat(Tail(seqs))

NumberText(n) == <<"0", "1", "2", "3", "4", "5", "6", "7", "8", "9">>[n + 1]

(***************************************************************************)
(* The schema.  Query is always there; Mutation is there or not;           *)
(* Subscription is not.                                                    *)
(***************************************************************************)
Named(n) == [wrappers |-> <<>>, name |-> n]
NonNullOf(t) == [t EXCEPT !.wrappers = <<"NonNull">> \o @]
ListOf(t) == [t EXCEPT !.wrappers = <<"List">> \o @]

NoFields == [n \in {} |-> Named("")]

\* keys: Object.keys of the field map, in declaration order (input objects)
ObjectType(fields) ==
  [kind |-> "OBJECT", fields |-> fields, keys |-> <<>>, types |-> <<>>, values |-> <<>>]
UnionType(types) ==
  [kind |-> "UNION", fields |-> NoFields, keys |-> <<>>, types |-> types, values |-> <<>>]
EnumType(values) ==
  [kind |-> "ENUM", fields |-> NoFields, keys |-> <<>>, types |-> <<>>, values |-> values]
InputObjectType(keys, fields) ==
  [kind |-> "INPUT_OBJECT", fields |-> fields, keys |-> keys, types |-> <<>>, values |-> <<>>]
ScalarType ==
  [kind |-> "SCALAR", fields |-> NoFields, keys |-> <<>>, types |-> <<>>, values |-> <<>>]

SchemaTypes ==
  [ Query |-> ObjectType([ user |-> Named("User"),
                           users |-> NonNullOf(ListOf(NonNullOf(Named("User")))),
                           node |-> Named("Node"),
                           id |-> Named("ID") ]),
    Mutation |-> ObjectType([ user |-> NonNullOf(Named("User")),
                              id |-> Named("ID") ]),
    User |-> ObjectType([ id |-> NonNullOf(Named("ID")),
                          email |-> Named("String"),
                          role |-> NonNullOf(Named("Role")),
                          user |-> ListOf(Named("User")) ]),
    Post |-> ObjectType([ title |-> Named("String"),
                          id |-> NonNullOf(Named("Int")) ]),
    Node |-> UnionType(<<"Post", "User">>),
    Role |-> EnumType(<<"ADMIN", "USER">>),
    Filter |-> InputObjectType(<<"role", "limit">>,
                               [ role |-> Named("Role"),
                                 limit |-> NonNullOf(Named("Int")) ]),
    ID |-> ScalarType,
    String |-> ScalarType,
    Int |-> ScalarType,
    Boolean |-> ScalarType ]

Schemas ==
  { [types |-> SchemaTypes, query |-> "Query", mutation |-> m, subscription |-> Undefined] :
      m \in {"Mutation", Undefined} }

getType(name) ==
  IF name \in DOMAIN parsedSchema.types THEN name ELSE Undefined
TypeOf(name) == parsedSchema.types[name]
getFields(name) == TypeOf(name).fields
\* obj[key] of a field map: the field's type reference, or undefined
NoField == Named(Undefined)
FieldOf(typeName, fieldName) ==
  IF fieldName \in DOMAIN getFields(typeName)
  THEN getFields(typeName)[fieldName] ELSE NoField

isCompositeType(t) ==
  t # Undefined /\ TypeOf(t).kind \in {"OBJECT", "INTERFACE", "UNION"}
isList(type) == type.wrappers # <<>> /\ Head(type.wrappers) = "List"
isNonNullable(type) == type.wrappers # <<>> /\ Head(type.wrappers) = "NonNull"
ofType(type) == [type EXCEPT !.wrappers = Tail(@)]
getNamedType(type) == getType(type.name)
IsEnum(name) == getType(name) # Undefined /\ TypeOf(name).kind = "ENUM"
IsInputObject(name) == getType(name) # Undefined /\ TypeOf(name).kind = "INPUT_OBJECT"

(***************************************************************************)
(* The options: the type map and the hooks.                                *)
(***************************************************************************)
DEFAULT_TYPE_MAP ==
  ("ID" :> "string") @@ ("String" :> "string") @@ ("Boolean" :> "boolean") @@
  ("Int" :> "number") @@ ("Float" :> "number") @@ ("__DEFAULT" :> "any")

\* { ...DEFAULT_TYPE_MAP, ...typeMap }
TypeMap == options.typeMap @@ DEFAULT_TYPE_MAP

\* TypeMap[key], undefined (null) when the key is not in the map
TypeMapAt(key) ==
  IF Len(key) = 1 /\ key[1] \in DOMAIN TypeMap THEN <<TypeMap[key[1]]>> ELSE Null

wrapList(type) == <<"Array<">> \o type \o <<">">>
wrapPartial(possiblePartial) == <<"Partial<">> \o possiblePartial \o <<">">>
printType(type, isNonNull) == IF isNonNull THEN type ELSE type \o <<"|", "null">>
formatInput(name, isOptional, type) ==
  name \o <<IF isOptional THEN "?:" ELSE ":">> \o type \o <<";">>
generateFragmentName(name) == <<"IFragment", name>>
generateQueryName(def) ==
  IF def.name = "" THEN <<"Anonymous">> ELSE <<def.name>>
generateSubTypeInterfaceName(selectionName, generatedCount) ==
  IF options.subTypeNames
  THEN <<"SelectionOn", selectionName, NumberText(generatedCount)>>
  ELSE Null
buildRootInterfaceName(def) ==
  CASE def.kind = "OperationDefinition" -> generateQueryName(def)
    [] def.kind = "FragmentDefinition" -> generateFragmentName(def.name)
    [] OTHER -> <<"">>
formatInterface(opName, fields) ==
  <<"export interface">> \o opName \o <<"{", "\n">> \o Join(fields, <<"\n">>) \o <<"\n", "}">>
formatFragmentInterface(opName, fields, extensions) ==
  <<"export interface">> \o opName \o
  (IF extensions = <<>> THEN <<>> ELSE <<"extends">> \o Join(extensions, <<",">>)) \o
  <<"{", "\n">> \o Join(fields, <<"\n">>) \o <<"\n", "}">>
formatVariableInterface(opName, fields) ==
  <<"export interface">> \o opName \o <<"Input", "{", "\n">> \o Join(fields, <<"\n">>) \o <<"\n", "}">>

\* the typeMap argument: {} (the default) or an override of one key;
\* generateSubTypeInterfaceName: a hook that names every group, or one that
\* always answers null
EmptyTypeMap == [k \in {} |-> ""]
TypeMaps == { EmptyTypeMap, ("ID" :> "number") }
Options == { [typeMap |-> tm, subTypeNames |-> n] : tm \in TypeMaps, n \in BOOLEAN }

(***************************************************************************)
(* Type Resolver.                                                          *)
(***************************************************************************)
handleEnum(type, isNonNull) ==
  LET values == TypeOf(type.name).values
      decl == Join([k \in 1..Len(values) |-> <<"'", values[k], "'">>], <<"|">>)
  IN  printType(decl, isNonNull)

\* a plausible slip: the nullability of the innermost type is lost
handleRegularTypeAlwaysNullable(type, isNonNull, replacement) ==
  LET typeValue == <<type.name>>
      showValue == IF Truthy(replacement) THEN replacement ELSE typeValue
      show == IF Truthy(TypeMapAt(showValue)) THEN TypeMapAt(showValue)
              ELSE IF Truthy(replacement) THEN showValue ELSE TypeMapAt(<<"__DEFAULT">>)
  IN  printType(show, FALSE)

handleRegularType(type, isNonNull, replacement) ==
  LET typeValue == <<type.name>>
      showValue == IF Truthy(replacement) THEN replacement ELSE typeValue
      show == IF Truthy(TypeMapAt(showValue)) THEN TypeMapAt(showValue)
              ELSE IF Truthy(replacement) THEN showValue ELSE TypeMapAt(<<"__DEFAULT">>)
  IN  printType(show, isNonNull)

RECURSIVE convertToType(_, _, _)
convertToType(type, isNonNull, replacement) ==
  IF isList(type)
  THEN printType(wrapList(convertToType(ofType(type), FALSE, replacement)), isNonNull)
  ELSE IF isNonNullable(type)
  THEN convertToType(ofType(type), TRUE, replacement)
  ELSE IF IsEnum(type.name)
  THEN handleEnum(type, isNonNull)
  ELSE handleRegularType(type, isNonNull, replacement)

handleInputObject(type, isNonNull) ==
  LET fields == getFields(type.name)
      \* Object.keys: the fields in declaration order
      keys == TypeOf(type.name).keys
      variableDeclarations ==
        Join([k \in 1..Len(keys) |->
                formatInput(<<keys[k]>>, TRUE, convertToType(fields[keys[k]], FALSE, Null))],
             <<"\n", "    ">>)
      builder == <<"{", "\n", "    ">> \o variableDeclarations \o <<"\n", "  ", "}">>
  IN  printType(builder, isNonNull)

\* undefined (Null) when the type node names neither an enum nor an input object
handleNamedTypeInput(type, isNonNull) ==
  IF type.name # "" /\ IsEnum(type.name) THEN handleEnum(type, isNonNull)
  ELSE IF type.name # "" /\ IsInputObject(type.name) THEN handleInputObject(type, isNonNull)
  ELSE Null

RECURSIVE convertVariable(_, _, _)
convertVariable(type, isNonNull, replacement) ==
  IF isList(type)
  THEN printType(wrapList(convertVariable(ofType(type), FALSE, replacement)), isNonNull)
  ELSE IF isNonNullable(type)
  THEN convertVariable(ofType(type), TRUE, replacement)
  ELSE IF Truthy(handleNamedTypeInput(type, isNonNull))
  THEN handleNamedTypeInput(type, isNonNull)
  ELSE handleRegularType(type, isNonNull, replacement)

(***************************************************************************)
(* Selection Walker.                                                       *)
(*                                                                         *)
(* A selection node is [kind, name, alias, directives, typeCondition,      *)
(* selectionSet]: alias "" and typeCondition "" stand for none, and        *)
(* selectionSet <<>> for a field with no selection set.  directives is the *)
(* sequence of the directives' names.                                      *)
(*                                                                         *)
(* What a walk returns (IChildren) is [iface, isFragment, isPartial,       *)
(* complexTypes], with err (the exception the walk threw, "" for none) and *)
(* two history fields that record what the walk did and are read by no     *)
(* operation: lines, one entry per formatInput call (per Field walked),    *)
(* and generated, one entry per auxiliary type built.                      *)
(***************************************************************************)
UndefinedDirectives == {"include", "skip"}

\* a plausible slip: any directive at all makes the selection conditional
isUndefinedFromAnyDirective(directives) == directives # <<>>

isUndefinedFromDirective(directives) ==
  IF directives = <<>> THEN FALSE
  ELSE \E i \in 1..Len(directives) : directives[i] \in UndefinedDirectives

\* [err, type]: the root type of the operation, undefined when the schema has none
getOperationFields(operation) ==
  CASE operation = "query" -> [err |-> "", type |-> parsedSchema.query]
    [] operation = "mutation" -> [err |-> "", type |-> parsedSchema.mutation]
    [] operation = "subscription" -> [err |-> "", type |-> parsedSchema.subscription]
    [] OTHER -> [err |-> "Unsupported Operation", type |-> Undefined]

\* a plausible slip: a conditional spread is not wrapped
wrapPossiblePartialNever(possiblePartial) == possiblePartial.iface

wrapPossiblePartial(possiblePartial) ==
  IF possiblePartial.isPartial
  THEN wrapPartial(possiblePartial.iface)
  ELSE possiblePartial.iface

flattenComplexTypes(children) ==
  Concat([k \in 1..Len(children) |-> children[k].complexTypes])

Thrown(msg) ==
  [iface |-> <<>>, isFragment |-> FALSE, isPartial |-> FALSE, complexTypes |-> <<>>,
   err |-> msg, lines |-> <<>>, generated |-> <<>>]

\* the exception of the first call of a map that threw, "" when none did
FirstError(children) ==
  IF \E k \in 1..Len(children) : children[k].err # ""
  THEN children[CHOOSE k \in 1..Len(children) :
                  /\ children[k].err # ""
                  /\ \A j \in 1..(k - 1) : children[j].err = ""].err
  ELSE ""

\* lines 169-179: [err, field, owner]: the field's type (NoField when the
\* lookup gave undefined) and the type whose field map held it
ResolveField(operation, selection, parent) ==
  IF parent # Undefined /\ isCompositeType(parent)
  THEN IF TypeOf(parent).kind = "UNION"
       THEN LET types == TypeOf(parent).types
                found == {k \in 1..Len(types) : FieldOf(types[k], selection.name) # NoField}
            IN  IF found = {}
                THEN [err |-> "", field |-> NoField, owner |-> parent]
                ELSE LET k == CHOOSE k \in found : \A j \in found : k <= j
                     IN  [err |-> "", field |-> FieldOf(types[k], selection.name),
                          owner |-> types[k]]
       ELSE [err |-> "", field |-> FieldOf(parent, selection.name), owner |-> parent]
  ELSE LET operationFields == getOperationFields(operation)
       IN  IF operationFields.err # ""
           THEN [err |-> operationFields.err, field |-> NoField, owner |-> Undefined]
           ELSE IF operationFields.type = Undefined
           THEN [err |-> "TypeError", field |-> NoField, owner |-> Undefined]
           ELSE [err |-> "", field |-> FieldOf(operationFields.type, selection.name),
                 owner |-> operationFields.type]

\* a plausible slip: the selections of a conditional field count as partial
IsPartialOrOptional(child) ==
  child.isPartial \/ \E k \in 1..Len(child.lines) :
                        ~child.lines[k].sealed /\ child.lines[k].optional

\* lines 205-206: the test that sends a non-fragment child to the partial group
IsPartialChild(child) == child.isPartial

\* line 211 / 226: '{\n' + ifaces.join('\n') + `\n${indentation}}`
GroupBody(members, indentation) ==
  <<"{", "\n">> \o Join([k \in 1..Len(members) |-> members[k].iface], <<"\n">>) \o
  <<"\n">> \o indentation \o <<"}">>

\* lines 198-240: the composed type of a field's selection set, from the walks
\* of its selections: [childType, members (andOps), complexTypes, generated]
ComposeSelections(selection, indentation, selections) ==
  LET NotFragment(s) == ~s.isFragment
      IsFragment(s) == s.isFragment
      NotPartial(s) == ~IsPartialChild(s)
      nonFragments == SelectSeq(selections, NotFragment)
      fragments == SelectSeq(selections, IsFragment)
      nonPartialNonFragments == SelectSeq(nonFragments, NotPartial)
      partialNonFragments == SelectSeq(nonFragments, IsPartialChild)
      hasDefinite == nonPartialNonFragments # <<>>
      hasPartial == partialNonFragments # <<>>
      definiteBuilder == GroupBody(nonPartialNonFragments, indentation)
      definiteName == generateSubTypeInterfaceName(selection.name, 0)
      definiteOp == IF ~Truthy(definiteName) THEN definiteBuilder ELSE definiteName
      countAfterDefinite == IF hasDefinite THEN 1 ELSE 0
      partialBuilder == wrapPartial(GroupBody(partialNonFragments, indentation))
      partialName == generateSubTypeInterfaceName(selection.name, countAfterDefinite)
      definiteTypes ==
        IF hasDefinite
        THEN <<[iface |-> definiteBuilder, isPartial |-> FALSE, name |-> definiteName,
                field |-> selection.name, count |-> 0]>>
        ELSE <<>>
      partialTypes ==
        IF hasPartial
        THEN <<[iface |-> partialBuilder, isPartial |-> TRUE, name |-> partialName,
                field |-> selection.name, count |-> countAfterDefinite]>>
        ELSE <<>>
      own == definiteTypes \o partialTypes
      andOps ==
        (IF hasDefinite THEN <<definiteOp>> ELSE <<>>) \o
        (IF hasPartial THEN <<partialBuilder>> ELSE <<>>) \o
        [k \in 1..Len(fragments) |-> wrapPossiblePartial(fragments[k])]
  IN  [childType |-> Join(andOps, <<"&">>),
       members |-> andOps,
       complexTypes |->
         flattenComplexTypes(selections) \o
         [k \in 1..Len(own) |-> [iface |-> own[k].iface, isPartial |-> own[k].isPartial,
                                 name |-> own[k].name]],
       generated |->
         Concat([k \in 1..Len(selections) |-> selections[k].generated]) \o own]

\* history: the lines of the children of a field, marked with the wrapper
\* (wrapPartial) their group or spread was given, and closed
SealLines(selections) ==
  Concat([k \in 1..Len(selections) |->
            [j \in 1..Len(selections[k].lines) |->
               LET e == selections[k].lines[j]
               IN  IF e.sealed THEN e
                   ELSE [e EXCEPT !.wrapped = selections[k].isPartial, !.sealed = TRUE]]])

\* history: the lines of the children of an inline fragment, marked as lying
\* inside a fragment that is typed or conditional
EncloseLines(selections, conditional) ==
  Concat([k \in 1..Len(selections) |->
            [j \in 1..Len(selections[k].lines) |->
               LET e == selections[k].lines[j]
               IN  IF e.sealed THEN e
                   ELSE [e EXCEPT !.enclosed = @ \/ conditional]]])

\* a plausible slip: the children of a typed fragment are resolved against
\* the enclosing type
InlineFragmentParentUnchanged(selection, parent) == parent

\* lines 249-253: the parent the children of an inline fragment are given
InlineFragmentParent(selection, parent) ==
  LET anon == selection.typeCondition = ""
  IN  IF ~anon THEN getType(selection.typeCondition) ELSE parent

\* lines 188-193: the parent the selections of a field are resolved against
NewParent(field) ==
  LET fieldType == getNamedType(field)
  IN  IF isCompositeType(fieldType) THEN fieldType ELSE Undefined

\* lines 181-243, 271-276: a Field, its field resolved and the selections of
\* its selection set walked
FieldSelection(selection, indentation, isUndefined, resolved, selections, composed) ==
  LET field == resolved.field
      selectionName == IF selection.alias # "" THEN selection.alias ELSE selection.name
      isUndefined2 == isUndefined \/ isUndefinedFromDirective(selection.directives)
      hasSelectionSet == selection.selectionSet # <<>>
      childType == IF hasSelectionSet THEN composed.childType ELSE Null
      resolvedType == convertToType(field, FALSE, childType)
      str == formatInput(indentation \o <<selectionName>>, isUndefined2, resolvedType)
      line == [name |-> selectionName, field |-> selection.name,
               directives |-> selection.directives, inherited |-> isUndefined,
               optional |-> isUndefined2, owner |-> resolved.owner, type |-> field,
               members |-> IF hasSelectionSet THEN composed.members ELSE <<>>,
               childType |-> childType,
               enclosed |-> FALSE, wrapped |-> FALSE, sealed |-> FALSE]
  IN  IF resolved.err # "" THEN Thrown(resolved.err)
      ELSE IF field = NoField THEN Thrown("TypeError")
      ELSE IF hasSelectionSet /\ FirstError(selections) # ""
      THEN Thrown(FirstError(selections))
      ELSE [iface |-> str, isFragment |-> FALSE, isPartial |-> FALSE,
            complexTypes |-> IF hasSelectionSet THEN composed.complexTypes ELSE <<>>,
            err |-> "",
            lines |-> (IF hasSelectionSet THEN SealLines(selections) ELSE <<>>)
                      \o <<line>>,
            generated |-> IF hasSelectionSet THEN composed.generated ELSE <<>>]

\* lines 244-247, 271-276: a FragmentSpread
FragmentSpreadSelection(selection) ==
  [iface |-> generateFragmentName(selection.name), isFragment |-> TRUE,
   isPartial |-> isUndefinedFromDirective(selection.directives),
   complexTypes |-> <<>>, err |-> "", lines |-> <<>>, generated |-> <<>>]

\* lines 258-266: an InlineFragment, its selections walked
InlineFragmentSelection(selection, selections) ==
  LET anon == selection.typeCondition = ""
      joinSelections == Join([k \in 1..Len(selections) |-> selections[k].iface], <<"\n">>)
      isPartial == isUndefinedFromDirective(selection.directives)
  IN  IF FirstError(selections) # "" THEN Thrown(FirstError(selections))
      ELSE [iface |-> joinSelections, isFragment |-> FALSE, isPartial |-> isPartial,
            complexTypes |-> <<>>, err |-> "",
            lines |-> EncloseLines(selections, ~anon \/ isPartial),
            generated |-> Concat([k \in 1..Len(selections) |-> selections[k].generated])]

\* the walks of lines 195-196, composed and made the field's line
FieldWalked(selection, indentation, isUndefined, resolved, selections) ==
  FieldSelection(selection, indentation, isUndefined, resolved, selections,
                 ComposeSelections(selection, indentation, selections))

RECURSIVE getChildSelections(_, _, _, _, _)
\* the field of a Field resolved, and its selections walked (lines 195-196)
FieldResolved(operation, selection, indentation, isUndefined, resolved) ==
  FieldWalked(selection, indentation, isUndefined, resolved,
              [k \in 1..Len(selection.selectionSet) |->
                 getChildSelections(operation, selection.selectionSet[k],
                                    indentation \o <<"  ">>, NewParent(resolved.field),
                                    FALSE)])

getChildSelections(operation, selection, indentation, parent, isUndefined) ==
  IF selection.kind = "Field"
  THEN FieldResolved(operation, selection, indentation, isUndefined,
                     ResolveField(operation, selection, parent))
  ELSE IF selection.kind = "FragmentSpread"
  THEN FragmentSpreadSelection(selection)
  ELSE IF selection.kind = "InlineFragment"
  THEN InlineFragmentSelection(
         selection,
         [k \in 1..Len(selection.selectionSet) |->
            getChildSelections(operation, selection.selectionSet[k], indentation,
                               InlineFragmentParent(selection, parent),
                               selection.typeCondition # "")])
  ELSE Thrown("Unsupported SelectionNode")

(***************************************************************************)
(* Operation/Fragment Assembler.                                           *)
(*                                                                         *)
(* A definition is [kind, operation, name, typeCondition,                  *)
(* variableDefinitions, selectionSet]; a variable definition is            *)
(* [name, type], its type a syntactic type node, modelled like a type      *)
(* reference.                                                              *)
(***************************************************************************)
getVariables(variables) ==
  [k \in 1..Len(variables) |->
     LET v == variables[k]
         optional == ~isNonNullable(v.type)
         type == convertVariable(v.type, FALSE, Null)
     IN  formatInput(<<v.name>>, optional, type)]

variablesToInterface(opName, variables) ==
  IF variables = <<>> THEN <<>>
  ELSE formatVariableInterface(opName, getVariables(variables))

\* lines 297-301: the declaration of one auxiliary type
Declaration(subtype) ==
  IF subtype.isPartial
  THEN <<"export type">> \o Template(subtype.name) \o <<"=">> \o subtype.iface \o <<";">>
  ELSE <<"export interface">> \o Template(subtype.name) \o subtype.iface

buildAdditionalTypes(children) ==
  LET subTypes == flattenComplexTypes(children)
  IN  [k \in 1..Len(subTypes) |-> Declaration(subTypes[k])]

\* lines 310-318 and 325-334: the record of a definition, its top-level
\* selections walked; the record carries the history of the walks
AssembleDefinition(def, children) ==
  LET ifaceName == buildRootInterfaceName(def)
      IsFragment(x) == x.isFragment
      NotFragment(x) == ~x.isFragment
      Ifaces(xs) == [k \in 1..Len(xs) |-> xs[k].iface]
      history == [lines |-> Concat([k \in 1..Len(children) |-> children[k].lines]),
                  generated |-> Concat([k \in 1..Len(children) |-> children[k].generated])]
  IN  IF def.kind = "OperationDefinition"
      THEN [variables |-> variablesToInterface(ifaceName, def.variableDefinitions),
            interface |-> formatInterface(ifaceName, Ifaces(children)),
            additionalTypes |-> buildAdditionalTypes(children),
            history |-> history]
      ELSE [variables |-> <<>>,
            interface |->
              formatFragmentInterface(ifaceName,
                                      Ifaces(SelectSeq(children, NotFragment)),
                                      Ifaces(SelectSeq(children, IsFragment))),
            additionalTypes |-> buildAdditionalTypes(children),
            history |-> history]

NoRecord ==
  [variables |-> <<>>, interface |-> <<>>, additionalTypes |-> <<>>,
   history |-> [lines |-> <<>>, generated |-> <<>>]]

\* what the callback did, from the walks: [err, record]
Converted(def, children) ==
  IF def.kind \notin {"OperationDefinition", "FragmentDefinition"}
  THEN [err |-> "Unsupported Definition", record |-> NoRecord]
  ELSE IF FirstError(children) # ""
  THEN [err |-> FirstError(children), record |-> NoRecord]
  ELSE [err |-> "", record |-> AssembleDefinition(def, children)]

\* lines 306-337: the callback of definitions.map for one definition
ConvertDefinition(def) ==
  Converted(def,
            [k \in 1..Len(def.selectionSet) |->
               getChildSelections(
                 IF def.kind = "OperationDefinition" THEN def.operation ELSE "query",
                 def.selectionSet[k], <<"  ">>,
                 IF def.kind = "OperationDefinition" THEN Undefined
                 ELSE getType(def.typeCondition),
                 FALSE)])

(***************************************************************************)
(* The inputs.                                                             *)
(***************************************************************************)
Field(name, alias, directives, selectionSet) ==
  [kind |-> "Field", name |-> name, alias |-> alias, directives |-> directives,
   typeCondition |-> "", selectionSet |-> selectionSet]
FragmentSpread(name, directives) ==
  [kind |-> "FragmentSpread", name |-> name, alias |-> "", directives |-> directives,
   typeCondition |-> "", selectionSet |-> <<>>]
InlineFragment(typeCondition, directives, selectionSet) ==
  [kind |-> "InlineFragment", name |-> "", alias |-> "", directives |-> directives,
   typeCondition |-> typeCondition, selectionSet |-> selectionSet]
\* a node of a kind the walker does not know
OtherSelection ==
  [kind |-> "Other", name |-> "", alias |-> "", directives |-> <<>>,
   typeCondition |-> "", selectionSet |-> <<>>]

SeqsUpTo(S, n) == UNION { [1..k -> S] : k \in 1..n }

DirectiveLists ==
  { <<>>, <<"include">>, <<"skip">>, <<"client">>, <<"client", "include">>,
    <<"skip", "client">> }
ConditionLists == { <<>>, <<"include">> }

\* every selection that takes a selection set, over the selection sets given
Composites(sets) ==
  { Field("user", a, d, ss) : a \in {"", "friend"}, d \in {<<>>}, ss \in sets } \cup
  { Field("user", "", <<"skip">>, ss) : ss \in sets } \cup
  { InlineFragment(t, d, ss) : t \in {"", "User", "Node"}, d \in ConditionLists, ss \in sets }

(* the selections of the direct calls of getChildSelections *)
WalkLeaves ==
  { Field("id", "", d, <<>>) : d \in DirectiveLists } \cup
  { Field("email", a, d, <<>>) : a \in {"", "mail"}, d \in {<<>>} } \cup
  { Field("email", "", <<"include">>, <<>>) } \cup
  { FragmentSpread("Frag", d) : d \in {<<>>, <<"skip">>, <<"client">>} }
WalkSelections ==
  WalkLeaves \cup
  Composites(SeqsUpTo(WalkLeaves, MaxSelections)) \cup
  Composites({ <<c>> : c \in Composites({ <<l>> : l \in WalkLeaves }) })

(* the type references of the direct calls of convertToType: no NonNull *)
(* wraps a NonNull                                                       *)
WrapperChains ==
  { w \in UNION { [1..k -> {"List", "NonNull"}] : k \in 0..MaxWrappers } :
      \A i \in 1..(Len(w) - 1) : ~(w[i] = "NonNull" /\ w[i + 1] = "NonNull") }
TypeReferences ==
  { [wrappers |-> w, name |-> n] :
      w \in WrapperChains, n \in {"String", "ID", "User", "Role", "DateTime"} }
Replacements == { Null, <<"IFragment", "Frag">>, <<"{", "}">> }

(* the documents *)
DocLeaves ==
  { Field("id", "", <<>>, <<>>), Field("id", "", <<"include">>, <<>>),
    Field("nope", "", <<>>, <<>>), FragmentSpread("Frag", <<>>),
    FragmentSpread("Frag", <<"skip">>), OtherSelection }
DocNested == Composites({ <<l>> : l \in DocLeaves })
\* the selections that stand beside one another at the top of a definition
DocSiblings ==
  DocLeaves \cup
  { Field("user", a, <<>>, <<Field("id", "", <<>>, <<>>)>>) : a \in {"", "friend"} } \cup
  { InlineFragment("", <<"include">>, <<Field("id", "", <<>>, <<>>)>>),
    InlineFragment("User", <<>>, <<Field("id", "", <<>>, <<>>)>>) }
DocSelectionSets ==
  SeqsUpTo(DocSiblings, MaxSelections) \cup
  { <<c>> : c \in DocNested } \cup
  { <<c>> : c \in Composites(SeqsUpTo(DocLeaves, MaxSelections)) } \cup
  { <<c>> : c \in Composites({ <<n>> : n \in DocNested }) }
VariableLists ==
  { <<>>,
    <<[name |-> "flag", type |-> NonNullOf(Named("Boolean"))],
      [name |-> "filter", type |-> Named("Filter")],
      [name |-> "roles", type |-> ListOf(NonNullOf(Named("Role")))]>> }
OperationDefinition(operation, name, variableDefinitions, selectionSet) ==
  [kind |-> "OperationDefinition", operation |-> operation, name |-> name,
   typeCondition |-> "", variableDefinitions |-> variableDefinitions,
   selectionSet |-> selectionSet]
FragmentDefinition(name, typeCondition, selectionSet) ==
  [kind |-> "FragmentDefinition", operation |-> "", name |-> name,
   typeCondition |-> typeCondition, variableDefinitions |-> <<>>,
   selectionSet |-> selectionSet]
\* a definition of a kind doIt does not know
OtherDefinition ==
  [kind |-> "SchemaDefinition", operation |-> "", name |-> "", typeCondition |-> "",
   variableDefinitions |-> <<>>, selectionSet |-> <<>>]
Definitions(sets) ==
  { OperationDefinition(o, "", <<>>, ss) : o \in {"query", "mutation"}, ss \in sets } \cup
  { FragmentDefinition("Frag", "User", ss) : ss \in sets } \cup
  { OtherDefinition }
ShortDefinitions ==
  Definitions({ <<l>> : l \in DocLeaves }) \cup
  { OperationDefinition("query", "Q", v, <<Field("id", "", <<>>, <<>>)>>) :
      v \in VariableLists }
Documents ==
  { <<d>> : d \in Definitions(DocSelectionSets) } \cup
  { <<d1, d2>> : d1 \in ShortDefinitions, d2 \in ShortDefinitions }

(***************************************************************************)
(* doIt, one definition of definitions.map at a time.                      *)
(***************************************************************************)
Idle == [status |-> "idle", value |-> <<>>]
Running == [status |-> "running", value |-> <<>>]

Init ==
  /\ parsedSchema \in Schemas
  /\ options \in { o \in Options : o.typeMap = EmptyTypeMap }
  /\ parsedSelection \in Documents
  /\ defIndex = 1
  /\ acc = <<>>
  /\ result = Running
  /\ call = NotCalled
  /\ ret = NotCalled

\* the callback returns: definitions.map goes on to the next definition
Mapped(converted) ==
  /\ converted.err = ""
  /\ acc' = Append(acc, converted.record)
  /\ defIndex' = defIndex + 1
  /\ UNCHANGED <<parsedSchema, options, parsedSelection, result, call, ret>>

MapDefinition ==
  /\ result.status = "running"
  /\ defIndex <= Len(parsedSelection)
  /\ Mapped(ConvertDefinition(parsedSelection[defIndex]))

\* the callback throws: doIt ends with the exception, and what
\* definitions.map had built is lost
Threw(converted) ==
  /\ converted.err # ""
  /\ result' = [status |-> "threw", value |-> <<>>]
  /\ acc' = <<>>
  /\ UNCHANGED <<parsedSchema, options, parsedSelection, defIndex, call, ret>>

Throw ==
  /\ result.status = "running"
  /\ defIndex <= Len(parsedSelection)
  /\ Threw(ConvertDefinition(parsedSelection[defIndex]))

\* definitions.map is through: doIt returns its array
Return ==
  /\ result.status = "running"
  /\ defIndex > Len(parsedSelection)
  /\ result' = [status |-> "returned",
                value |-> [k \in 1..Len(acc) |->
                             [variables |-> acc[k].variables,
                              interface |-> acc[k].interface,
                              additionalTypes |-> acc[k].additionalTypes]]]
  /\ UNCHANGED <<parsedSchema, options, parsedSelection, defIndex, acc, call, ret>>

Next == MapDefinition \/ Throw \/ Return

Spec == Init /\ [][Next]_vars

(***************************************************************************)
(* A direct call of getChildSelections.                                    *)
(***************************************************************************)
InitWalk ==
  /\ parsedSchema \in { s \in Schemas : s.mutation # Undefined }
  /\ options \in { o \in Options : o.typeMap = EmptyTypeMap }
  /\ call \in [operation : {"query"}, selection : WalkSelections,
               indentation : {<<"  ">>}, parent : {Undefined, "User"},
               isUndefined : BOOLEAN]
  /\ ret = NotCalled
  /\ parsedSelection = <<>>
  /\ defIndex = 1
  /\ acc = <<>>
  /\ result = Idle

Walk ==
  /\ ret = NotCalled
  /\ ret' = [called |-> TRUE,
             value |-> getChildSelections(call.operation, call.selection,
                                          call.indentation, call.parent,
                                          call.isUndefined)]
  /\ UNCHANGED <<parsedSchema, options, parsedSelection, defIndex, acc, result, call>>

NextWalk == Walk

SpecWalk == InitWalk /\ [][NextWalk]_vars

(***************************************************************************)
(* A direct call of convertToType.                                         *)
(***************************************************************************)
InitType ==
  /\ parsedSchema \in { s \in Schemas : s.mutation # Undefined }
  /\ options \in { o \in Options : o.subTypeNames }
  /\ call \in [type : TypeReferences, isNonNull : {FALSE}, replacement : Replacements]
  /\ ret = NotCalled
  /\ parsedSelection = <<>>
  /\ defIndex = 1
  /\ acc = <<>>
  /\ result = Idle

Convert ==
  /\ ret = NotCalled
  /\ ret' = [called |-> TRUE,
             value |-> convertToType(call.type, call.isNonNull, call.replacement)]
  /\ UNCHANGED <<parsedSchema, options, parsedSelection, defIndex, acc, result, call>>

NextType == Convert

SpecType == InitType /\ [][NextType]_vars

(***************************************************************************)
(* What the claims are stated with.                                        *)
(***************************************************************************)
\* the directives hold @skip or @include
HasConditional(directives) ==
  \E i \in 1..Len(directives) : directives[i] \in {"skip", "include"}

Walked == ret # NotCalled /\ ret.value.err = ""

\* the line of the walked selection itself: the last one of its walk
OwnLine == ret.value.lines[Len(ret.value.lines)]

\* the lines of the Fields that are direct children of the walked inline
\* fragment: the lines no enclosing Field has closed
DirectFieldLines ==
  LET Direct(e) == ~e.sealed
  IN  IF \E k \in 1..Len(call.selection.selectionSet) :
            call.selection.selectionSet[k].kind = "InlineFragment"
      THEN <<>>
      ELSE SelectSeq(ret.value.lines, Direct)

\* the field of the line was looked up in the type named typeName (for a
\* union, in one of its members)
ResolvedAgainst(e, typeName) ==
  /\ IF TypeOf(typeName).kind = "UNION"
     THEN \E k \in 1..Len(TypeOf(typeName).types) : TypeOf(typeName).types[k] = e.owner
     ELSE e.owner = typeName
  /\ e.type = FieldOf(e.owner, e.field)

\* the text read back: the wrapper chain a type text shows, outermost first
IsNullableText(t) == Len(t) >= 2 /\ t[Len(t) - 1] = "|" /\ t[Len(t)] = "null"
IsListText(t) == Len(t) >= 2 /\ t[1] = "Array<" /\ t[Len(t)] = ">"
RECURSIVE WrappersShown(_)
WrappersShown(t) ==
  LET core == IF IsNullableText(t) THEN SubSeq(t, 1, Len(t) - 2) ELSE t
  IN  (IF IsNullableText(t) THEN <<>> ELSE <<"NonNull">>) \o
      (IF IsListText(core)
       THEN <<"List">> \o WrappersShown(SubSeq(core, 2, Len(core) - 1))
       ELSE <<>>)

\* the lines of a text: its tokens between the line breaks
RECURSIVE TextLines(_)
TextLines(t) ==
  IF \E i \in 1..Len(t) : t[i] = "\n"
  THEN LET i == CHOOSE i \in 1..Len(t) : t[i] = "\n" /\ \A j \in 1..(i - 1) : t[j] # "\n"
       IN  <<SubSeq(t, 1, i - 1)>> \o TextLines(SubSeq(t, i + 1, Len(t)))
  ELSE <<t>>

(***************************************************************************)
(* C1.  For every Field the walk meets, the optional flag given to         *)
(* formatInput is true exactly when the walk of that Field was called with *)
(* isUndefined = true or the Field carries @skip or @include; the          *)
(* nullability of the field's type and other directives do not count, and  *)
(* a directive never makes the walk of a Field throw.                      *)
(***************************************************************************)
C1_OptionalFlag ==
  ret # NotCalled =>
    /\ \A k \in 1..Len(ret.value.lines) :
         LET e == ret.value.lines[k]
         IN  e.optional <=> (e.inherited \/ HasConditional(e.directives))
    /\ (call.selection.kind = "Field" /\ call.selection.selectionSet = <<>>) =>
         (ret.value.err = "" <=>
            ResolveField(call.operation, call.selection, call.parent).field # NoField)

\* a Field of a non-null type with @skip beside an unknown directive is
\* optional, and one with an unknown directive alone is not
C1_Witness ==
  /\ Walked
  /\ \E k \in 1..Len(ret.value.lines) :
       LET e == ret.value.lines[k]
       IN  /\ ~e.inherited /\ e.optional
           /\ e.directives = <<"skip", "client">> /\ isNonNullable(e.type)
  /\ \E k \in 1..Len(ret.value.lines) :
       LET e == ret.value.lines[k]
       IN  /\ ~e.inherited /\ ~e.optional
           /\ e.directives = <<"client">> /\ isNonNullable(e.type)

(***************************************************************************)
(* C2.  The text convertToType gives for a type reference shows the        *)
(* reference's wrapper chain: one list wrapper per List, and at the        *)
(* outermost level and at each element level the nullable wrapper exactly  *)
(* when that level is not wrapped in NonNull.                              *)
(***************************************************************************)
C2_MirrorsWrappers ==
  ret # NotCalled => WrappersShown(ret.value) = call.type.wrappers

C2_Witness ==
  /\ ret # NotCalled
  /\ call.type.wrappers = <<"NonNull", "List", "List", "NonNull">>
  /\ ret.value = <<"Array<", "Array<", "number", ">", "|", "null", ">">>

(***************************************************************************)
(* C3.  The walked Field has a selection set of two sibling Fields, one    *)
(* with @include alone and one with no directive.                          *)
(***************************************************************************)
C3_Case ==
  /\ Walked
  /\ call.selection.kind = "Field"
  /\ Len(call.selection.selectionSet) = 2
  /\ \A k \in 1..2 : /\ call.selection.selectionSet[k].kind = "Field"
                     /\ call.selection.selectionSet[k].selectionSet = <<>>
  /\ \E k \in 1..2 : /\ call.selection.selectionSet[k].directives = <<"include">>
                     /\ call.selection.selectionSet[3 - k].directives = <<>>

C3_Decorated == CHOOSE k \in 1..2 : call.selection.selectionSet[k].directives = <<"include">>
C3_Name(k) ==
  LET sel == call.selection.selectionSet[k]
  IN  IF sel.alias # "" THEN sel.alias ELSE sel.name
\* line k of a group body is the line of the sibling j, optional or not
C3_IsLineOf(body, k, j, optional) ==
  LET lines == TextLines(body)
      at == Len(call.indentation) + 2
  IN  /\ Len(lines) > k
      /\ Len(lines[k + 1]) > at
      /\ lines[k + 1][at] = C3_Name(j)
      /\ lines[k + 1][at + 1] = IF optional THEN "?:" ELSE ":"

\* C3 as the spec states it: a definite group type with the undecorated
\* field's line and a partial group type (wrapped by wrapPartial) with the
\* decorated field's line, both members of the parent field's intersection
C3_SplitsIntoTwoGroups ==
  C3_Case =>
    /\ Len(ret.value.generated) = 2
    /\ ~ret.value.generated[1].isPartial
    /\ ret.value.generated[2].isPartial
    /\ Len(OwnLine.members) = 2

\* C3 as amended: one auxiliary type, the definite group (isPartial = false),
\* whose body holds the lines of both fields in document order, the
\* decorated one with optional = true and the other with optional = false;
\* it is the only member of the parent field's composed type (by its name,
\* or by its body when the naming hook answers null), and no partial group
\* is built
C3_OneDefiniteGroup ==
  C3_Case =>
    /\ Len(ret.value.generated) = 1
    /\ ret.value.complexTypes =
         <<[iface |-> ret.value.generated[1].iface, isPartial |-> FALSE,
            name |-> ret.value.generated[1].name]>>
    /\ ~ret.value.generated[1].isPartial
    /\ Len(TextLines(ret.value.generated[1].iface)) = 4
    /\ \A k \in 1..2 :
         C3_IsLineOf(ret.value.generated[1].iface, k, k, k = C3_Decorated)
    /\ \A i \in 1..Len(ret.value.generated[1].iface) :
         ret.value.generated[1].iface[i] # "Partial<"
    /\ OwnLine.members =
         <<IF Truthy(ret.value.generated[1].name)
           THEN ret.value.generated[1].name
           ELSE ret.value.generated[1].iface>>
    /\ OwnLine.childType = OwnLine.members[1]

C3_Witness ==
  /\ C3_Case
  /\ call.selection.selectionSet[2].directives = <<"include">>
  /\ call.selection.selectionSet[1].name = "email"
  /\ ~options.subTypeNames

(***************************************************************************)
(* C4.  The direct child Fields of a typed inline fragment with no         *)
(* directive are resolved against the type the condition names and are     *)
(* optional whatever their own directives; those of an inline fragment     *)
(* with no type condition are resolved against the parent the fragment was *)
(* given and are optional exactly when they carry @skip or @include.       *)
(***************************************************************************)
C4_InlineFragmentChildren ==
  (Walked /\ call.selection.kind = "InlineFragment") =>
    /\ (call.selection.typeCondition # "" /\ call.selection.directives = <<>>) =>
         \A k \in 1..Len(DirectFieldLines) :
           /\ ResolvedAgainst(DirectFieldLines[k], call.selection.typeCondition)
           /\ DirectFieldLines[k].optional
    /\ call.selection.typeCondition = "" =>
         \A k \in 1..Len(DirectFieldLines) :
           /\ ResolvedAgainst(DirectFieldLines[k],
                              IF isCompositeType(call.parent) THEN call.parent
                              ELSE parsedSchema.query)
           /\ DirectFieldLines[k].optional <=>
                HasConditional(DirectFieldLines[k].directives)

\* ... on User { id } under the root type, where id has another type, and
\* ... { id @client } inside a walk that was itself called with isUndefined
C4_Witness ==
  /\ Walked
  /\ call.selection.kind = "InlineFragment"
  /\ Len(DirectFieldLines) = 1
  /\ DirectFieldLines[1].directives = <<"client">>
  /\ \/ /\ call.selection.typeCondition = "User"
        /\ call.selection.directives = <<>>
        /\ call.parent = Undefined
        /\ call.isUndefined = FALSE
        /\ DirectFieldLines[1].optional
        /\ DirectFieldLines[1].type = NonNullOf(Named("ID"))
     \/ /\ call.selection.typeCondition = ""
        /\ call.isUndefined
        /\ ~DirectFieldLines[1].optional

(***************************************************************************)
(* C5.  In the composed type of a Field with a selection set, each         *)
(* FragmentSpread child gives one member, after those of the groups and in *)
(* document order: the generated fragment name, wrapped by wrapPartial     *)
(* exactly when the spread carries @skip or @include.  Spreads build no    *)
(* auxiliary type, and a selection set of one undecorated spread composes  *)
(* to the fragment name alone.                                             *)
(***************************************************************************)
C5_Spreads ==
  LET IsSpread(sel) == sel.kind = "FragmentSpread"
  IN  SelectSeq(call.selection.selectionSet, IsSpread)

C5_SpreadMembers ==
  (Walked /\ call.selection.kind = "Field" /\ call.selection.selectionSet # <<>>) =>
    LET members == OwnLine.members
        first == Len(members) - Len(C5_Spreads)
    IN  /\ first >= 0
        /\ \A k \in 1..Len(C5_Spreads) :
             members[first + k] =
               IF HasConditional(C5_Spreads[k].directives)
               THEN wrapPartial(generateFragmentName(C5_Spreads[k].name))
               ELSE generateFragmentName(C5_Spreads[k].name)
        /\ Len(C5_Spreads) = Len(call.selection.selectionSet) =>
             /\ first = 0
             /\ ret.value.generated = <<>>
             /\ ret.value.complexTypes = <<>>
        /\ (Len(call.selection.selectionSet) = 1 /\ Len(C5_Spreads) = 1
            /\ ~HasConditional(C5_Spreads[1].directives)) =>
             OwnLine.childType = generateFragmentName(C5_Spreads[1].name)

C5_Witness ==
  /\ Walked
  /\ call.selection.kind = "Field"
  /\ Len(C5_Spreads) = 2
  /\ C5_Spreads[1].directives = <<"skip">>
  /\ C5_Spreads[2].directives = <<"client">>
  /\ OwnLine.childType =
       <<"Partial<", "IFragment", "Frag", ">", "&", "IFragment", "Frag">>

(***************************************************************************)
(* C6.  A document with a definition that meets a fatal condition (a       *)
(* definition of another kind than operation or fragment, a selection of   *)
(* another kind than Field, FragmentSpread or InlineFragment, an operation *)
(* whose root type the schema lacks, a Field its parent type lacks) makes  *)
(* doIt throw and give no record at all; any other document makes it       *)
(* return one record per definition, in document order.                    *)
(***************************************************************************)
RECURSIVE HasOtherKind(_)
HasOtherKind(selection) ==
  \/ selection.kind \notin {"Field", "FragmentSpread", "InlineFragment"}
  \/ \E k \in 1..Len(selection.selectionSet) : HasOtherKind(selection.selectionSet[k])

RECURSIVE HasUnresolvedField(_, _, _)
HasUnresolvedField(operation, selection, parent) ==
  IF selection.kind = "Field"
  THEN LET resolved == ResolveField(operation, selection, parent)
       IN  \/ resolved.err # ""
           \/ resolved.field = NoField
           \/ \E k \in 1..Len(selection.selectionSet) :
                HasUnresolvedField(operation, selection.selectionSet[k],
                                   NewParent(resolved.field))
  ELSE IF selection.kind = "InlineFragment"
  THEN \E k \in 1..Len(selection.selectionSet) :
         HasUnresolvedField(operation, selection.selectionSet[k],
                            InlineFragmentParent(selection, parent))
  ELSE FALSE

IsFatal(def) ==
  \/ def.kind \notin {"OperationDefinition", "FragmentDefinition"}
  \/ \E k \in 1..Len(def.selectionSet) : HasOtherKind(def.selectionSet[k])
  \/ /\ def.kind = "OperationDefinition"
     /\ getOperationFields(def.operation).type = Undefined
  \/ \E k \in 1..Len(def.selectionSet) :
       IF def.kind = "OperationDefinition"
       THEN HasUnresolvedField(def.operation, def.selectionSet[k], Undefined)
       ELSE HasUnresolvedField("query", def.selectionSet[k], getType(def.typeCondition))

C6_FatalAbortsElseOneRecordEach ==
  LET fatal == \E k \in 1..Len(parsedSelection) : IsFatal(parsedSelection[k])
  IN  /\ result.status = "returned" =>
           /\ ~fatal
           /\ Len(result.value) = Len(parsedSelection)
           /\ \A k \in 1..Len(parsedSelection) :
                result.value[k].interface =
                  ConvertDefinition(parsedSelection[k]).record.interface
      /\ result.status = "threw" => (fatal /\ result.value = <<>>)

(***************************************************************************)
(* C7.  The additionalTypes of a definition are the declarations of the    *)
(* auxiliary types the Fields under it built, at any depth and inside      *)
(* inline fragments too, each once, in the order they were built.          *)
(***************************************************************************)
C7_EveryAuxiliaryTypeDeclaredOnce ==
  \A k \in 1..Len(acc) :
    acc[k].additionalTypes =
      [j \in 1..Len(acc[k].history.generated) |->
         Declaration(acc[k].history.generated[j])]

(***************************************************************************)
(* C8.  A selection that carries @skip or @include, or lies inside a typed *)
(* or conditional inline fragment through a chain of inline fragments, is  *)
(* optional in the declaration it goes to: each of its Field lines has     *)
(* optional = true or was wrapped by wrapPartial.                          *)
(***************************************************************************)
C8_PartialityNeverDropped ==
  \A k \in 1..Len(acc) :
    \A j \in 1..Len(acc[k].history.lines) :
      LET e == acc[k].history.lines[j]
      IN  (HasConditional(e.directives) \/ e.enclosed) => (e.optional \/ e.wrapped)

(***************************************************************************)
(* C9.  A group the naming hook answers null for is a member of its        *)
(* field's intersection by its body and has no declaration in              *)
(* additionalTypes; a definite group the hook names is a member by that    *)
(* name and has exactly one declaration with that name.                    *)
(***************************************************************************)
C9_IsMember(record, group, member) ==
  \E j \in 1..Len(record.history.lines) :
    LET e == record.history.lines[j]
    IN  /\ e.field = group.field
        /\ \E m \in 1..Len(e.members) : e.members[m] = member

C9_DeclarationsNamed(record, name) ==
  { i \in 1..Len(record.additionalTypes) :
      /\ Len(record.additionalTypes[i]) > Len(name)
      /\ SubSeq(record.additionalTypes[i], 2, Len(name) + 1) = name }

C9_NullNameMeansInline ==
  \A k \in 1..Len(acc) :
    \A j \in 1..Len(acc[k].history.generated) :
      LET group == acc[k].history.generated[j]
      IN  /\ group.name = Null =>
               /\ C9_IsMember(acc[k], group, group.iface)
               /\ \A i \in 1..Len(acc[k].additionalTypes) :
                    acc[k].additionalTypes[i] # Declaration(group)
          /\ (group.name # Null /\ ~group.isPartial) =>
               /\ C9_IsMember(acc[k], group, group.name)
               /\ Cardinality(C9_DeclarationsNamed(acc[k], group.name)) = 1

(***************************************************************************)
(* C10.  Within one definition no two auxiliary types were named from the  *)
(* same (field name, counter) pair.                                        *)
(***************************************************************************)
C10_NamingArgumentsDistinct ==
  \A k \in 1..Len(acc) :
    \A i, j \in 1..Len(acc[k].history.generated) :
      i < j =>
        <<acc[k].history.generated[i].field, acc[k].history.generated[i].count>> #
        <<acc[k].history.generated[j].field, acc[k].history.generated[j].count>>

====
